---- MODULE Spec2Model ----
(***************************************************************************)
(* cargo-next: read, set and bump the package.version field of Cargo.toml. *)
(*                                                                         *)
(* Strings are sequences of one-character strings.  A semantic version is  *)
(* the record semver::Version holds: three unsigned components and the     *)
(* pre-release and build-metadata texts.  The manifest is the toml_edit    *)
(* document: the raw text of the value at package.version and the rest of  *)
(* the document, which the library carries through an edit untouched.      *)
(***************************************************************************)
EXTENDS Integers, Sequences, FiniteSets, TLC

\* Width of a version component.  semver::Version holds u64 components; the
\* model keeps the same unsigned arithmetic at a width TLC can enumerate.
U64Bits == 4

\* Longest run of successful bumps explored from one stored version.
MaxSeq == 4

VARIABLES
    file,       \* Cargo.toml in the current directory
    before,     \* the file when the last invocation started
    cmd,        \* the last invocation: subcommand, argument, standard input
    res,        \* the Result the subcommand produced
    stdout,     \* the lines the last invocation printed to standard output
    stderr,     \* the message it printed to standard error
    exitCode,   \* its exit status
    wrote,      \* whether it called fs::write
    base,       \* the stored version value the current run of bumps began at
    applied     \* the increments successfully applied since

vars == <<file, before, cmd, res, stdout, stderr, exitCode, wrote, base, applied>>

RECURSIVE Pow2(_)
Pow2(n) == IF n = 0 THEN 1 ELSE 2 * Pow2(n - 1)

\* u64::MAX at the modelled width.
U64Max == Pow2(U64Bits) - 1

----------------------------------------------------------------------------
\* Characters and decimal text

Digits == <<"0", "1", "2", "3", "4", "5", "6", "7", "8", "9">>

Letters == {"a", "b", "c", "x", "y"}

IsDigit(c) == \E i \in 1..10 : Digits[i] = c

DigitVal(c) == (CHOOSE i \in 1..10 : Digits[i] = c) - 1

IsWhite(c) == c \in {" ", "\n", "\t", "\r"}

\* `let x = value; body`: bind a value once and continue with it
Let(x, Body(_)) == Body(x)

\* input[from..], the rest of a string
Drop(s, n) == SubSeq(s, n + 1, Len(s))

Take(s, n) == SubSeq(s, 1, n)

\* Display of an unsigned integer
RECURSIVE Decimal(_)
Decimal(n) ==
    IF n < 10 THEN <<Digits[n + 1]>>
    ELSE Decimal(n \div 10) \o <<Digits[(n % 10) + 1]>>

\* str::trim: strip leading and trailing white space
RECURSIVE TrimStart(_)
TrimStart(s) ==
    IF s # <<>> /\ IsWhite(Head(s)) THEN TrimStart(Tail(s)) ELSE s

RECURSIVE TrimEnd(_)
TrimEnd(s) ==
    IF s # <<>> /\ IsWhite(s[Len(s)]) THEN TrimEnd(Take(s, Len(s) - 1)) ELSE s

Trim(s) == TrimEnd(TrimStart(s))

----------------------------------------------------------------------------
\* Results and errors

\* Results of the crate's functions: Ok(version), Err(error), or a panic.
Ok(x) == [kind |-> "ok", v |-> x]

Err(e) == [kind |-> "err", err |-> e]

Panic == [kind |-> "panic"]

NoResult == [kind |-> "none"]

IoError == [variant |-> "IoError"]

SemverParseError == [variant |-> "SemverParseError"]

TomlParseError == [variant |-> "ParseError"]

InvalidFieldType(field, ty) ==
    [variant |-> "InvalidFieldType", field |-> field, ty |-> ty]

----------------------------------------------------------------------------
\* semver::Version: parse and Display

ParseErr == [ok |-> FALSE]

\* semver's numeric_identifier: the longest run of digits, no leading zero,
\* no overflow of the component type, at least one digit.
RECURSIVE NumLoop(_, _, _)
NumLoop(input, len, val) ==
    IF len < Len(input) /\ IsDigit(input[len + 1])
    THEN IF val = 0 /\ len > 0
         THEN ParseErr
         ELSE LET sum == val * 10 + DigitVal(input[len + 1])
              IN  IF sum > U64Max THEN ParseErr
                  ELSE NumLoop(input, len + 1, sum)
    ELSE IF len > 0
         THEN [ok |-> TRUE, value |-> val, rest |-> Drop(input, len)]
         ELSE ParseErr

NumericIdentifier(input) == NumLoop(input, 0, 0)

\* semver's dot: the separator between two components
Dot(input) ==
    IF input # <<>> /\ Head(input) = "."
    THEN [ok |-> TRUE, rest |-> Tail(input)]
    ELSE ParseErr

\* semver's identifier: dot-separated segments of [0-9A-Za-z-]; no empty
\* segment; in a pre-release, no numeric segment with a leading zero.
RECURSIVE IdentLoop(_, _, _, _, _)
IdentLoop(input, isPre, acc, seg, nondigit) ==
    LET at == acc + seg + 1
        c  == IF at <= Len(input) THEN input[at] ELSE "" IN
    IF c \in Letters \cup {"-"}
    THEN IdentLoop(input, isPre, acc, seg + 1, TRUE)
    ELSE IF c # "" /\ IsDigit(c)
    THEN IdentLoop(input, isPre, acc, seg + 1, nondigit)
    ELSE IF seg = 0
         THEN IF acc = 0 /\ c # "."
              THEN [ok |-> TRUE, rest |-> input, ident |-> <<>>]
              ELSE ParseErr
         ELSE IF isPre /\ seg > 1 /\ ~nondigit /\ input[acc + 1] = "0"
              THEN ParseErr
              ELSE IF c = "."
                   THEN IdentLoop(input, isPre, acc + seg + 1, 0, FALSE)
                   ELSE [ok |-> TRUE, rest |-> Drop(input, acc + seg),
                         ident |-> Take(input, acc + seg)]

Identifier(input, isPre) == IdentLoop(input, isPre, 0, 0, FALSE)

\* An optional "-pre" or "+build" part: absent, or the marker and a
\* non-empty identifier.
OptionalPart(input, marker, isPre) ==
    IF input # <<>> /\ Head(input) = marker
    THEN Let(Identifier(Tail(input), isPre), LAMBDA r :
            IF ~r.ok \/ r.ident = <<>> THEN ParseErr ELSE r)
    ELSE [ok |-> TRUE, rest |-> input, ident |-> <<>>]

NewVersion(ma, mi, pa, pr, bu) ==
    [major |-> ma, minor |-> mi, patch |-> pa, pre |-> pr, build |-> bu]

\* Version::parse
VersionParse(input) ==
    Let(NumericIdentifier(input), LAMBDA ma :
    IF ~ma.ok THEN Err(SemverParseError) ELSE
    Let(Dot(ma.rest), LAMBDA d1 :
    IF ~d1.ok THEN Err(SemverParseError) ELSE
    Let(NumericIdentifier(d1.rest), LAMBDA mi :
    IF ~mi.ok THEN Err(SemverParseError) ELSE
    Let(Dot(mi.rest), LAMBDA d2 :
    IF ~d2.ok THEN Err(SemverParseError) ELSE
    Let(NumericIdentifier(d2.rest), LAMBDA pa :
    IF ~pa.ok THEN Err(SemverParseError) ELSE
    Let(OptionalPart(pa.rest, "-", TRUE), LAMBDA pre :
    IF ~pre.ok THEN Err(SemverParseError) ELSE
    Let(OptionalPart(pre.rest, "+", FALSE), LAMBDA build :
    IF ~build.ok THEN Err(SemverParseError) ELSE
    IF build.rest # <<>> THEN Err(SemverParseError) ELSE
    Ok(NewVersion(ma.value, mi.value, pa.value, pre.ident, build.ident)))))))))

\* Display for Version (version.to_string())
VersionToString(v) ==
    Decimal(v.major) \o <<".">> \o Decimal(v.minor) \o <<".">> \o Decimal(v.patch)
      \o (IF v.pre = <<>> THEN <<>> ELSE <<"-">> \o v.pre)
      \o (IF v.build = <<>> THEN <<>> ELSE <<"+">> \o v.build)

----------------------------------------------------------------------------
\* Version arithmetic (SemVerExt for Version, bump_version)

Increments == {"Major", "Minor", "Patch"}

\* `x += 1` on a u64: with overflow checks the process panics at the maximum,
\* without them the value wraps to 0.
Overflows(x) == x = U64Max

AddOne(x) == (x + 1) % Pow2(U64Bits)

bump_major(v) == [v EXCEPT !.major = AddOne(v.major), !.minor = 0, !.patch = 0]

bump_minor(v) == [v EXCEPT !.minor = AddOne(v.minor), !.patch = 0]

\* A bump that also clears the suffix, as semver 0.x's increment_patch did
bump_patch_clearing(v) ==
    [v EXCEPT !.patch = AddOne(v.patch), !.pre = <<>>, !.build = <<>>]

bump_patch(v) == [v EXCEPT !.patch = AddOne(v.patch)]

\* The component an increment adds one to
Target(v, increment) ==
    CASE increment = "Major" -> v.major
      [] increment = "Minor" -> v.minor
      [] increment = "Patch" -> v.patch

Bumped(v, increment) ==
    CASE increment = "Major" -> bump_major(v)
      [] increment = "Minor" -> bump_minor(v)
      [] increment = "Patch" -> bump_patch(v)

\* bump_version(version_str, increment); overflowChecks tells whether the
\* build panics on integer overflow.
bump_version(version_str, increment, overflowChecks) ==
    Let(VersionParse(version_str), LAMBDA p :
        IF p.kind = "err" THEN p
        ELSE IF Overflows(Target(p.v, increment)) /\ overflowChecks THEN Panic
        ELSE Ok(Bumped(p.v, increment)))

----------------------------------------------------------------------------
\* The manifest on disk and the toml_edit document

\* Cargo.toml: whether it exists, can be read and written and is valid TOML,
\* the raw text of the value at package.version (empty: no such value) and
\* the other keys of the document.
Manifest(e, r, w, t, raw, o) ==
    [exists |-> e, readable |-> r, writable |-> w, toml |-> t,
     version |-> raw, others |-> o]

\* value(&s): a TOML basic string holding s
TomlString(s) == <<"\"">> \o s \o <<"\"">>

\* An as_str that coerces any value present to its text
ItemAsStrCoercing(raw) ==
    IF Len(raw) >= 2 /\ raw[1] = "\"" /\ raw[Len(raw)] = "\""
    THEN <<SubSeq(raw, 2, Len(raw) - 1)>>
    ELSE IF raw # <<>> THEN <<raw>> ELSE <<>>

\* Item::as_str: the text of a string value; None for any other item
\* (an integer, a missing key). Options are sequences of length 0 or 1.
ItemAsStr(raw) ==
    IF Len(raw) >= 2 /\ raw[1] = "\"" /\ raw[Len(raw)] = "\""
    THEN <<SubSeq(raw, 2, Len(raw) - 1)>>
    ELSE <<>>

\* fs::read_to_string followed by parse::<Document>()
ReadDocument(f) ==
    IF ~f.readable THEN Err(IoError)
    ELSE IF ~f.toml THEN Err(TomlParseError)
    ELSE Ok(f)

\* A read that answers from the version the run of bumps began at instead
\* of the file's current content
get_package_version_str_cached(f) ==
    Let(ReadDocument(f), LAMBDA doc :
        IF doc.kind = "err" THEN doc
        ELSE Let(ItemAsStr(base), LAMBDA s :
                IF s # <<>> THEN Ok(s[1])
                ELSE Err(InvalidFieldType("version", "string"))))

get_package_version_str(f) ==
    Let(ReadDocument(f), LAMBDA doc :
        IF doc.kind = "err" THEN doc
        ELSE Let(ItemAsStr(doc.v.version), LAMBDA s :
                IF s # <<>> THEN Ok(s[1])
                ELSE Err(InvalidFieldType("version", "string"))))

get_version(f) ==
    Let(ReadDocument(f), LAMBDA doc :
        IF doc.kind = "err" THEN doc
        ELSE Let(ItemAsStr(doc.v.version), LAMBDA s :
                IF s # <<>>
                THEN VersionParse(s[1])
                ELSE Err(InvalidFieldType("version", "string"))))

\* The outcome of a call that may write: its result, the file afterwards and
\* whether fs::write was called.
Outcome(r, f, w) == [file |-> f, res |-> r, wrote |-> w]

\* A write through a plain map that loses the rest of the document
WriteDocumentLossy(f, doc, v) ==
    IF ~f.writable THEN Outcome(Err(IoError), f, TRUE)
    ELSE Outcome(Ok(v), [doc EXCEPT !.version = TomlString(VersionToString(v)),
                                    !.others = <<>>], TRUE)

\* doc["package"]["version"] = value(..); fs::write(path, doc.to_string())
WriteDocument(f, doc, v) ==
    IF ~f.writable THEN Outcome(Err(IoError), f, TRUE)
    ELSE Outcome(Ok(v), [doc EXCEPT !.version = TomlString(VersionToString(v))], TRUE)

\* A set_version that writes the given text first and validates afterwards
set_version_write_first(f, version_str) ==
    Let(ReadDocument(f), LAMBDA doc :
    Let(VersionParse(version_str), LAMBDA p :
        IF doc.kind = "err" THEN Outcome(doc, f, FALSE)
        ELSE IF ~f.writable THEN Outcome(Err(IoError), f, TRUE)
        ELSE Outcome(p,
                     [doc.v EXCEPT !.version = TomlString(version_str)], TRUE)))

set_version(f, version_str) ==
    Let(VersionParse(version_str), LAMBDA p :
        IF p.kind = "err" THEN Outcome(p, f, FALSE)
        ELSE Let(ReadDocument(f), LAMBDA doc :
                IF doc.kind = "err" THEN Outcome(doc, f, FALSE)
                ELSE WriteDocument(f, doc.v, p.v)))

bump_toml_version(f, increment, overflowChecks) ==
    Let(get_package_version_str(f), LAMBDA version_str :
        IF version_str.kind = "err" THEN Outcome(version_str, f, FALSE)
        ELSE Let(bump_version(version_str.v, increment, overflowChecks), LAMBDA version :
                IF version.kind # "ok" THEN Outcome(version, f, FALSE)
                ELSE Let(set_version(f, VersionToString(version.v)), LAMBDA w :
                        IF w.res.kind = "err" THEN w
                        ELSE Outcome(version, w.file, w.wrote))))

----------------------------------------------------------------------------
\* The command line driver (main)

\* An invocation: the subcommand, the optional argument of `set`, and what
\* standard input holds (or that reading it fails)
NoStdin == [err |-> FALSE, text |-> <<>>]

Command(op, arg, stdin) == [op |-> op, arg |-> arg, stdin |-> stdin]

\* read_stdin: the first line of standard input, trimmed; None if empty
ReadLine(input) ==
    IF \E i \in 1..Len(input) : input[i] = "\n"
    THEN Take(input, CHOOSE i \in 1..Len(input) :
                        input[i] = "\n" /\ \A j \in 1..(i - 1) : input[j] # "\n")
    ELSE input

read_stdin(stdin) ==
    IF stdin.err THEN Err(IoError)
    ELSE Let(Trim(ReadLine(stdin.text)), LAMBDA piped_trim :
            IF piped_trim = <<>> THEN Ok(<<>>) ELSE Ok(<<piped_trim>>))

\* Display of the crate's Error
ErrorDisplay(e) ==
    CASE e.variant = "IoError" -> <<"an io error occurred">>
      [] e.variant = "SemverParseError" -> <<"An error occurred during version parsing">>
      [] e.variant = "ParseError" -> <<"a toml parser error occurred">>
      [] e.variant = "InvalidFieldType" ->
            <<"the field ", e.field, " is not of type ", e.ty>>

\* What one run of the program leaves behind
Run(out, printed, message, status) ==
    [file |-> out.file, res |-> out.res, stdout |-> printed,
     stderr |-> message, exitCode |-> status, wrote |-> out.wrote]

\* The tail of main: report an error and exit 1, or return Ok(()).
Finish(out, printed) ==
    CASE out.res.kind = "err" -> Run(out, printed, ErrorDisplay(out.res.err), 1)
      [] out.res.kind = "panic" -> Run(out, printed, <<"panicked">>, 101)
      [] OTHER -> Run(out, printed, <<>>, 0)

MainGet(f) ==
    Let(get_version(f), LAMBDA r :
        Finish(Outcome(r, f, FALSE),
               IF r.kind = "ok" THEN <<VersionToString(r.v)>> ELSE <<>>))

\* A set that writes the placeholder when it was given no version
MainSetWritesPlaceholder(f, arg, stdin) ==
    Let(IF arg = <<>> THEN read_stdin(stdin) ELSE Ok(arg), LAMBDA version :
        IF version.kind = "err"
        THEN Run(Outcome(NoResult, f, FALSE), <<>>, <<"Error: ", "io::Error">>, 1)
        ELSE Finish(set_version(f, IF version.v # <<>> THEN version.v[1]
                                   ELSE <<"0", ".", "0", ".", "0">>), <<>>))

MainSet(f, arg, stdin) ==
    Let(IF arg = <<>> THEN read_stdin(stdin) ELSE Ok(arg), LAMBDA version :
        IF version.kind = "err"
        THEN Run(Outcome(NoResult, f, FALSE), <<>>, <<"Error: ", "io::Error">>, 1)
        ELSE IF version.v # <<>>
             THEN Finish(set_version(f, version.v[1]), <<>>)
             ELSE Finish(Outcome(VersionParse(<<"0", ".", "0", ".", "0">>), f, FALSE),
                         <<>>))

\* A bump that prints the new version, as get does
MainBumpPrinting(f, increment, overflowChecks) ==
    Let(bump_toml_version(f, increment, overflowChecks), LAMBDA out :
        Finish(out, IF out.res.kind = "ok" THEN <<VersionToString(out.res.v)>> ELSE <<>>))

MainBump(f, increment, overflowChecks) ==
    Finish(bump_toml_version(f, increment, overflowChecks), <<>>)

NotInProject(f) ==
    Run(Outcome(NoResult, f, FALSE), <<>>, <<"Not inside a cargo project folder!">>, 1)

Main(f, c, overflowChecks) ==
    IF ~f.exists THEN NotInProject(f)
    ELSE CASE c.op = "get" -> MainGet(f)
           [] c.op = "set" -> MainSet(f, c.arg, c.stdin)
           [] c.op = "major" -> MainBump(f, "Major", overflowChecks)
           [] c.op = "minor" -> MainBump(f, "Minor", overflowChecks)
           [] c.op = "patch" -> MainBump(f, "Patch", overflowChecks)

IncrementOf(op) ==
    CASE op = "major" -> "Major"
      [] op = "minor" -> "Minor"
      [] op = "patch" -> "Patch"

----------------------------------------------------------------------------
\* Inputs

V(ma, mi, pa) == VersionToString(NewVersion(ma, mi, pa, <<>>, <<>>))

\* Values found at package.version: version strings, strings that are no
\* version, an integer, and no value at all.
StoredValues ==
    { TomlString(V(0, 1, 0)),
      TomlString(V(1, 2, 3) \o <<"-", "a">>),
      TomlString(V(1, 2, 3) \o <<"-", "a", "+", "b">>),
      TomlString(V(U64Max, 1, 2)),
      TomlString(V(0, U64Max, U64Max)),
      TomlString(<<"1", ".", "2">>),
      TomlString(<<"x", "1", ".", "0", ".", "0">>),
      <<"1">>,
      <<>> }

Files ==
    { Manifest(e, r, w, t, v, <<"n", "a", "m", "e">>) :
        e \in BOOLEAN, r \in BOOLEAN, w \in BOOLEAN, t \in BOOLEAN, v \in StoredValues }

\* A file that does not exist can be neither read nor written nor parsed, and
\* one that cannot be read shows no content.
InitialFiles ==
    { f \in Files :
        /\ ~f.exists => ~f.readable /\ ~f.writable
        /\ ~f.readable => ~f.toml
        /\ ~f.toml => f.version = <<>> }

\* Arguments of `set`
SetArgs ==
    { V(2, 0, 0),
      V(1, 0, 0) \o <<"-", "b", ".", "1">>,
      V(0, 0, U64Max) \o <<"+", "0", "1">>,
      Decimal(U64Max + 1) \o <<".", "0", ".", "0">>,
      <<"0", "1", ".", "0", ".", "0">>,
      <<"1", ".", "2", ".", "3", "-">>,
      <<"1", ".", "0", ".", "0", " ">>,
      <<"x">> }

\* Contents of standard input
StdinTexts ==
    { <<>>,
      <<"\n">>,
      <<" ", "\n">>,
      <<"\n", "3", ".", "0", ".", "0", "\n">>,
      <<" ", "3", ".", "0", ".", "0", " ", "\n">>,
      <<"3", ".", "1", ".", "4">>,
      <<"x", "\n">> }

----------------------------------------------------------------------------
\* The state machine: one invocation of the program after another

Init ==
    /\ file \in InitialFiles
    /\ before = file
    /\ cmd = Command("none", <<>>, NoStdin)
    /\ res = NoResult
    /\ stdout = <<>>
    /\ stderr = <<>>
    /\ exitCode = 0
    /\ wrote = FALSE
    /\ base = file.version
    /\ applied = <<>>

\* One invocation: run main on the file and record what it left behind.
Invoke(c, overflowChecks) ==
    \E r \in {Main(file, c, overflowChecks)} :
    /\ before' = file
    /\ cmd' = c
    /\ file' = r.file
    /\ res' = r.res
    /\ stdout' = r.stdout
    /\ stderr' = r.stderr
    /\ exitCode' = r.exitCode
    /\ wrote' = r.wrote
    /\ IF c.op \in {"major", "minor", "patch"} /\ r.res.kind = "ok"
       THEN base' = base /\ applied' = Append(applied, IncrementOf(c.op))
       ELSE IF r.file # file
            THEN base' = r.file.version /\ applied' = <<>>
            ELSE UNCHANGED <<base, applied>>

Get == Invoke(Command("get", <<>>, NoStdin), FALSE)

Major ==
    /\ Len(applied) < MaxSeq
    /\ \E overflowChecks \in BOOLEAN :
          Invoke(Command("major", <<>>, NoStdin), overflowChecks)

Minor ==
    /\ Len(applied) < MaxSeq
    /\ \E overflowChecks \in BOOLEAN :
          Invoke(Command("minor", <<>>, NoStdin), overflowChecks)

Patch ==
    /\ Len(applied) < MaxSeq
    /\ \E overflowChecks \in BOOLEAN :
          Invoke(Command("patch", <<>>, NoStdin), overflowChecks)

SetArg ==
    \E v \in SetArgs : Invoke(Command("set", <<v>>, NoStdin), FALSE)

SetStdin ==
    \E stdin \in [err : {FALSE}, text : StdinTexts] \cup {[err |-> TRUE, text |-> <<>>]} :
        Invoke(Command("set", <<>>, stdin), FALSE)

Next == Major \/ Minor \/ Patch \/ Get \/ SetArg \/ SetStdin

Spec == Init /\ [][Next]_vars

----------------------------------------------------------------------------
\* Properties

BumpOps == {"major", "minor", "patch"}

\* The last invocation found a usable manifest: it exists, can be read and
\* written, and is valid TOML.
UsableBefore == before.exists /\ before.readable /\ before.writable /\ before.toml

\* The string stored at package.version before the last invocation, if any
StoredBefore == ItemAsStr(before.version)

\* The last invocation was a bump that handed a valid version to bump_version
\* and whose result is what bump_version returned.
BumpedValid ==
    /\ cmd.op \in BumpOps
    /\ UsableBefore
    /\ StoredBefore # <<>>
    /\ VersionParse(StoredBefore[1]).kind = "ok"

VersionBefore == VersionParse(StoredBefore[1]).v

\* major.minor.patch of a version, without any suffix
Triple(v) == V(v.major, v.minor, v.patch)

\* The reset rule in the integers
FollowsResetRule(v, increment, w) ==
    CASE increment = "Major" ->
            w.major = v.major + 1 /\ w.minor = 0 /\ w.patch = 0
      [] increment = "Minor" ->
            w.major = v.major /\ w.minor = v.minor + 1 /\ w.patch = 0
      [] increment = "Patch" ->
            w.major = v.major /\ w.minor = v.minor /\ w.patch = v.patch + 1

\* The sequence of tests::test_version_bump
TestVersionBump(overflowChecks) ==
    LET next(s, k) == VersionToString(bump_version(s, k, overflowChecks).v)
        v1 == next(V(0, 1, 0), "Patch")
        v2 == next(v1, "Minor")
        v3 == next(v2, "Patch")
        v4 == next(v3, "Patch")
        v5 == next(v4, "Major")
        v6 == next(v5, "Minor")
        v7 == next(v6, "Patch")
    IN  <<v1, v2, v3, v4, v5, v6, v7>> =
          <<V(0, 1, 1), V(0, 2, 0), V(0, 2, 1), V(0, 2, 2), V(1, 0, 0), V(1, 1, 0), V(1, 1, 1)>>

\* C1: for every valid version and every increment kind, bump_version returns
\* a version whose components follow the reset rule (Major: major+1, 0, 0;
\* Minor: major, minor+1, 0; Patch: major, minor, patch+1), and the sequence
\* from 0.1.0 of the crate's test yields 0.1.1 ... 1.1.1.
C1_BumpFollowsResetRule ==
    /\ \A overflowChecks \in BOOLEAN : TestVersionBump(overflowChecks)
    /\ BumpedValid =>
          /\ res.kind = "ok"
          /\ FollowsResetRule(VersionBefore, IncrementOf(cmd.op), res.v)

\* C2 as claimed: any increment of a version that carries a pre-release or
\* build suffix renders as the bare major.minor.patch.
C2_SuffixDiscarded ==
    (BumpedValid /\ res.kind = "ok") =>
        /\ VersionToString(res.v) = Triple(res.v)
        /\ file.version = TomlString(Triple(res.v))

\* C2 as amended: an increment changes only the three numbers; the
\* pre-release and build suffix of the input is kept verbatim, in the result
\* and in the file.
C2_SuffixKept ==
    (BumpedValid /\ res.kind = "ok") =>
        LET suffix == Drop(StoredBefore[1], Len(Triple(VersionBefore))) IN
        /\ res.v.pre = VersionBefore.pre
        /\ res.v.build = VersionBefore.build
        /\ VersionToString(res.v) = Triple(res.v) \o suffix
        /\ file.version = TomlString(Triple(res.v) \o suffix)

C2_Witness ==
    /\ BumpedValid
    /\ res.kind = "ok"
    /\ VersionBefore.pre # <<>>
    /\ VersionBefore.build # <<>>

RECURSIVE ApplyAll(_, _)
ApplyAll(v, increments) ==
    IF increments = <<>> THEN v
    ELSE ApplyAll(Bumped(v, Head(increments)), Tail(increments))

Given(c) ==
    IF c.arg # <<>> THEN c.arg
    ELSE IF c.stdin.err THEN <<>>
    ELSE read_stdin(c.stdin).v

\* C4: `set` with an argument writes the argument verbatim, whatever the
\* string: it is not validated, and no version-syntax error is raised.
C4_SetWritesVerbatim ==
    (cmd.op = "set" /\ cmd.arg # <<>> /\ UsableBefore) =>
        /\ res.kind = "ok"
        /\ wrote
        /\ file.version = TomlString(cmd.arg[1])

\* An error of the kinds that arise before the write: reading the file,
\* parsing the TOML, the field type check, version parsing
EarlyError ==
    /\ res.kind = "err"
    /\ \/ res.err.variant \in {"ParseError", "InvalidFieldType", "SemverParseError"}
       \/ res.err.variant = "IoError" /\ ~before.readable

\* C5: a command that fails with a read, TOML, field type or version syntax
\* error has attempted no write and left the file as it was.
C5_NoPartialSuccess ==
    EarlyError => (~wrote /\ file = before)

C5_Witness ==
    /\ cmd.op = "set"
    /\ res.kind = "err"
    /\ res.err.variant = "SemverParseError"
    /\ UsableBefore

\* package.version holds a value that is not a string
NonStringBefore ==
    /\ before.exists /\ before.readable /\ before.toml
    /\ before.version # <<>>
    /\ before.version[1] # "\""

\* C6: when package.version is not a string, get, major, minor and patch
\* fail with the type mismatch naming "version" and "string", and the file is
\* not modified.
C6_TypeMismatch ==
    (NonStringBefore /\ cmd.op \in BumpOps \cup {"get"}) =>
        /\ res = Err(InvalidFieldType("version", "string"))
        /\ stderr = <<"the field ", "version", " is not of type ", "string">>
        /\ exitCode = 1
        /\ ~wrote
        /\ file = before

C6_Witness ==
    /\ NonStringBefore
    /\ cmd.op = "minor"
    /\ before.writable
    /\ res.kind = "err"

\* C7: after a successful write of a version string, reading the version
\* string back gives exactly that string, and nothing but package.version
\* has changed.
C7_WriteReadRoundTrip ==
    (wrote /\ res.kind = "ok") =>
        LET s == IF cmd.op = "set" THEN Given(cmd)[1] ELSE VersionToString(res.v) IN
        /\ get_package_version_str(file) = Ok(s)
        /\ file = [before EXCEPT !.version = file.version]

C7_Witness ==
    /\ wrote
    /\ res.kind = "ok"
    /\ cmd.op = "set"
    /\ file.version # before.version
    /\ res.v.build # <<>>

BlankStdin(c) ==
    /\ ~c.stdin.err
    /\ \A i \in 1..Len(c.stdin.text) : IsWhite(c.stdin.text[i])

\* C9: set without an argument and with empty standard input raises no
\* error, yields 0.0.0, writes nothing and leaves the file unchanged.
C9_SetEmptyStdin ==
    (cmd.op = "set" /\ cmd.arg = <<>> /\ BlankStdin(cmd) /\ before.exists) =>
        /\ res = Ok(NewVersion(0, 0, 0, <<>>, <<>>))
        /\ exitCode = 0
        /\ stderr = <<>>
        /\ ~wrote
        /\ file = before

C9_Witness ==
    /\ cmd.op = "set"
    /\ cmd.arg = <<>>
    /\ BlankStdin(cmd)
    /\ UsableBefore
    /\ StoredBefore = <<V(0, 1, 0)>>
    /\ res.kind = "ok"

\* C10: the increment is total: at every representable component, the
\* maximum included, it neither fails nor aborts, and the incremented
\* component is exactly one greater than before.
C10_IncrementTotal ==
    BumpedValid =>
        /\ res.kind = "ok"
        /\ Target(res.v, IncrementOf(cmd.op)) =
              Target(VersionBefore, IncrementOf(cmd.op)) + 1

====
